---------------------------- MODULE Spec2Model ----------------------------
(***************************************************************************)
(* Model of the deterministic metraj engine of MetrajAI-website:           *)
(*   calculateQuantity   (src/ruleEngine.ts 8-39)                          *)
(*   runStructuralRules  (src/ruleEngine.ts 41-70)                         *)
(*                                                                         *)
(* JavaScript values are tagged records.  A number is an exact rational    *)
(* n/d in lowest terms (d > 0) or NaN; `undefined` is what reading an      *)
(* absent field yields; a string is a sequence of one-character strings,   *)
(* so that toLowerCase and === act on the characters.  Binary floating     *)
(* point rounding of the arithmetic is not modelled: + - * / are exact.    *)
(* An evaluation that throws yields TypeError and ends the call.           *)
(*                                                                         *)
(* Spec makes one call at a time on inputs drawn from bounded sets;        *)
(* SpecCalculate and SpecValidate are its restrictions to one function.    *)
(* Session is a caller that keeps a form row and an item list and calls    *)
(* both functions on them repeatedly.                                      *)
(*                                                                         *)
(* App is the application around the engine (src/ruleEngine.ts 119-266,    *)
(* 274-604): the state of the App component, its handlers as the views     *)
(* call them, the import and the add-row flow of the input view, and the   *)
(* two AI collaborators (src/unnamed/part_000).  An awaited call is a      *)
(* pending entry that a later step settles.  AppFair adds that every       *)
(* awaited call settles.                                                   *)
(***************************************************************************)
EXTENDS Integers, Sequences, FiniteSets, TLC

VARIABLES pc, arg, quantity, items, results, earlier,
          projects, auditHistory, currentProjectId, screen, isSidebarOpen,
          isAnalyzing, aiAnalysis, importPreview, parsedItemsPreview,
          upload, audits, now, handler

vars == <<pc, arg, quantity, items, results, earlier,
          projects, auditHistory, currentProjectId, screen, isSidebarOpen,
          isAnalyzing, aiAnalysis, importPreview, parsedItemsPreview,
          upload, audits, now, handler>>

\* the state of the engine's callers, and the state of the application
engineVars == <<pc, arg, quantity, items, results, earlier>>

appVars == <<projects, auditHistory, currentProjectId, screen, isSidebarOpen,
             isAnalyzing, aiAnalysis, importPreview, parsedItemsPreview,
             upload, audits, now, handler>>

----------------------------------------------------------------------------
(* JavaScript values *)

Undefined == [t |-> "undefined"]

NaN == [t |-> "NaN"]

Str(s) == [t |-> "str", s |-> s]

\* the outcome of an evaluation that throws
TypeError == [t |-> "TypeError"]

RECURSIVE GCD(_, _)
GCD(a, b) == IF b = 0 THEN a ELSE GCD(b, a % b)

Abs(i) == IF i < 0 THEN -i ELSE i

\* the number n/d, d > 0, in lowest terms
Rat(n, d) ==
  LET g == GCD(Abs(n), d)
  IN  [t |-> "num", n |-> n \div g, d |-> d \div g]

Int2Num(i) == Rat(i, 1)

Zero == Rat(0, 1)

One == Rat(1, 1)

IsNum(v) == v.t = "num"

\* ToNumber of an operand of an arithmetic operator: undefined becomes NaN
ToNumber(v) == IF v.t = "num" THEN v ELSE NaN

\* ToBoolean: undefined, NaN, 0 and '' are falsy
Truthy(v) ==
  CASE v.t = "num" -> v.n # 0
    [] v.t = "str" -> v.s # <<>>
    [] OTHER -> FALSE

\* a || b
Or(a, b) == IF Truthy(a) THEN a ELSE b

\* a * b
Mul(a, b) ==
  LET p == ToNumber(a)
      q == ToNumber(b)
  IN  IF IsNum(p) /\ IsNum(q) THEN Rat(p.n * q.n, p.d * q.d) ELSE NaN

\* a / b for a non-zero literal divisor b
Div(a, b) ==
  LET p == ToNumber(a)
      q == ToNumber(b)
  IN  IF IsNum(p) /\ IsNum(q) /\ q.n > 0 THEN Rat(p.n * q.d, p.d * q.n) ELSE NaN

\* a - b
Sub(a, b) ==
  LET p == ToNumber(a)
      q == ToNumber(b)
  IN  IF IsNum(p) /\ IsNum(q) THEN Rat(p.n * q.d - q.n * p.d, p.d * q.d) ELSE NaN

\* a > b: false when an operand is NaN
Gt(a, b) ==
  LET p == ToNumber(a)
      q == ToNumber(b)
  IN  IsNum(p) /\ IsNum(q) /\ p.n * q.d > q.n * p.d

\* Math.abs
MathAbs(a) ==
  LET p == ToNumber(a)
  IN  IF IsNum(p) THEN Rat(Abs(p.n), p.d) ELSE NaN

\* the decimals after the third cut off
ToFixed3_Truncated(v) ==
  LET p == ToNumber(v)
  IN  IF ~IsNum(p) THEN NaN
      ELSE LET m == (1000 * Abs(p.n)) \div p.d
           IN  Rat(IF p.n < 0 THEN -m ELSE m, 1000)

\* Number(v.toFixed(3)): toFixed takes the integer n with n/1000 closest to
\* |v|, the larger n on a tie, and restores the sign; NaN gives "NaN"
ToFixed3(v) ==
  LET p == ToNumber(v)
  IN  IF ~IsNum(p) THEN NaN
      ELSE LET m == (2000 * Abs(p.n) + p.d) \div (2 * p.d)
           IN  Rat(IF p.n < 0 THEN -m ELSE m, 1000)

----------------------------------------------------------------------------
(* Strings *)

LowerOf(c) ==
  CASE c = "M" -> "m"
    [] c = "K" -> "k"
    [] c = "G" -> "g"
    [] c = "T" -> "t"
    [] c = "O" -> "o"
    [] c = "N" -> "n"
    [] c = "A" -> "a"
    [] c = "D" -> "d"
    [] c = "E" -> "e"
    [] OTHER -> c

UpperOf(c) ==
  CASE c = "m" -> "M"
    [] c = "k" -> "K"
    [] c = "g" -> "G"
    [] c = "t" -> "T"
    [] c = "o" -> "O"
    [] c = "n" -> "N"
    [] c = "a" -> "A"
    [] c = "d" -> "D"
    [] c = "e" -> "E"
    [] OTHER -> c

\* v.toLowerCase(): a value without that method throws
toLowerCase(v) ==
  IF v.t = "str" THEN Str([i \in 1..Len(v.s) |-> LowerOf(v.s[i])])
  ELSE TypeError


----------------------------------------------------------------------------
(* The engine *)

m3 == Str(<<"m", "3">>)

m2 == Str(<<"m", "2">>)

kg == Str(<<"k", "g">>)

ton == Str(<<"t", "o", "n">>)

\* the unit compared as written, toLowerCase left out
locals_CaseSensitive(item) ==
  [x |-> Or(item.x, Zero),
   y |-> Or(item.y, Zero),
   z |-> Or(item.z, Zero),
   multiplier |-> Or(item.multiplier, One),
   count |-> Or(item.count, One),
   unitWeight |-> Or(item.unitWeight, Zero),
   unit |-> Or(item.unit, Str(<<>>))]

\* the unit weight defaulted to 1
locals_UnitWeightOne(item) ==
  [x |-> Or(item.x, Zero),
   y |-> Or(item.y, Zero),
   z |-> Or(item.z, Zero),
   multiplier |-> Or(item.multiplier, One),
   count |-> Or(item.count, One),
   unitWeight |-> Or(item.unitWeight, One),
   unit |-> toLowerCase(Or(item.unit, Str(<<>>)))]

\* multiplier and count defaulted only when absent (?? in place of ||)
locals_NullishFactors(item) ==
  [x |-> Or(item.x, Zero),
   y |-> Or(item.y, Zero),
   z |-> Or(item.z, Zero),
   multiplier |-> IF item.multiplier = Undefined THEN One ELSE item.multiplier,
   count |-> IF item.count = Undefined THEN One ELSE item.count,
   unitWeight |-> Or(item.unitWeight, Zero),
   unit |-> toLowerCase(Or(item.unit, Str(<<>>)))]

\* the unit lowered without the default ''
locals_UnitNotDefaulted(item) ==
  [x |-> Or(item.x, Zero),
   y |-> Or(item.y, Zero),
   z |-> Or(item.z, Zero),
   multiplier |-> Or(item.multiplier, One),
   count |-> Or(item.count, One),
   unitWeight |-> Or(item.unitWeight, Zero),
   unit |-> toLowerCase(item.unit)]

\* lines 9-15: the locals after defaulting
locals(item) ==
  [x |-> Or(item.x, Zero),
   y |-> Or(item.y, Zero),
   z |-> Or(item.z, Zero),
   multiplier |-> Or(item.multiplier, One),
   count |-> Or(item.count, One),
   unitWeight |-> Or(item.unitWeight, Zero),
   unit |-> toLowerCase(Or(item.unit, Str(<<>>)))]

\* the area taken as x * y * z
area_TimesZ(v) == Mul(Mul(v.x, v.y), v.z)

\* line 18
area(v) == Mul(v.x, v.y)

\* the volume taken as x * y
volume_WithoutZ(v) == Mul(v.x, v.y)

\* line 19
volume(v) == Mul(Mul(v.x, v.y), v.z)

\* the weight always on the volume basis
weightResult_AlwaysVolume(v) ==
  LET result == Mul(volume(v), v.unitWeight)
  IN  IF v.unit = ton THEN Div(result, Int2Num(1000)) ELSE result

\* the ton result taken from the base, the unit weight left out
weightResult_TonWithoutWeight(v) ==
  LET base == IF Gt(v.z, Zero) THEN volume(v) ELSE area(v)
      result == Mul(base, v.unitWeight)
  IN  IF v.unit = ton THEN Div(base, Int2Num(1000)) ELSE result

\* lines 27-32: the kg / ton branch
weightResult(v) ==
  LET base == IF Gt(v.z, Zero) THEN volume(v) ELSE area(v)
      result == Mul(base, v.unitWeight)
  IN  IF v.unit = ton THEN Div(result, Int2Num(1000)) ELSE result

\* -1 as the mark of an item without dimensions
linearResult_MinusOne(v) == Or(Or(Or(v.x, v.y), v.z), Int2Num(-1))

\* the dimensions tried in the order z, y, x
linearResult_ZFirst(v) == Or(Or(Or(v.z, v.y), v.x), One)

\* lines 33-36: the branch of the linear and count units
linearResult(v) == Or(Or(Or(v.x, v.y), v.z), One)

\* lines 8-39; an exception thrown at line 15 ends the call
calculateQuantity(item) ==
  LET v == locals(item)
      result ==
        IF v.unit = m3 THEN volume(v)
        ELSE IF v.unit = m2 THEN area(v)
        ELSE IF v.unit = kg \/ v.unit = ton THEN weightResult(v)
        ELSE linearResult(v)
  IN  IF v.unit = TypeError THEN TypeError
      ELSE ToFixed3(Mul(Mul(result, v.multiplier), v.count))

Tolerance == Rat(1, 100)

\* lines 47-53: the record pushed by the missing-dimension rule
missingFinding(item) ==
  [itemId |-> item.id,
   severity |-> "CRITICAL",
   message |-> [text |-> "Beton metrajinda (m3) boyutlardan biri eksik (X, Y veya Z).",
                poz |-> item.pozNumber],
   standardReference |-> "TS 500",
   suggestedAction |-> "Projedeki tum geometrik boyutlari kontrol edin."]

\* lines 59-65: the record pushed by the calculation-mismatch rule
mismatchFinding(item, computed) ==
  [itemId |-> item.id,
   severity |-> "CRITICAL",
   message |-> [text |-> "Hesaplama Uyusmazligi.",
                manual |-> item.totalQuantity,
                system |-> computed,
                poz |-> item.pozNumber],
   standardReference |-> "Matematiksel Dogrulama",
   suggestedAction |-> "Manuel girilen toplam miktari sistem hesaplamasiyla esitleyin."]

\* the rule firing only when x, y and z are all missing
MissingDimension_AllThree(item) ==
  IF item.category = "Concrete" /\ item.unit = m3
       /\ (~Truthy(item.x) /\ ~Truthy(item.y) /\ ~Truthy(item.z))
  THEN <<missingFinding(item)>>
  ELSE << >>

\* one finding pushed for each of x, y, z that is missing
MissingDimension_PerDimension(item) ==
  IF item.category = "Concrete" /\ item.unit = m3
  THEN (IF ~Truthy(item.x) THEN <<missingFinding(item)>> ELSE << >>)
       \o (IF ~Truthy(item.y) THEN <<missingFinding(item)>> ELSE << >>)
       \o (IF ~Truthy(item.z) THEN <<missingFinding(item)>> ELSE << >>)
  ELSE << >>

\* the rule applied to every Concrete item, whatever its unit
MissingDimension_AnyUnit(item) ==
  IF item.category = "Concrete"
       /\ (~Truthy(item.x) \/ ~Truthy(item.y) \/ ~Truthy(item.z))
  THEN <<missingFinding(item)>>
  ELSE << >>

\* lines 45-55: what the missing-dimension rule pushes for item
MissingDimension(item) ==
  IF item.category = "Concrete" /\ item.unit = m3
       /\ (~Truthy(item.x) \/ ~Truthy(item.y) \/ ~Truthy(item.z))
  THEN <<missingFinding(item)>>
  ELSE << >>

\* the rule comparing the stored calculatedQuantity, as the table row does
CalculationMismatch_UsesStored(item) ==
  LET computed == item.calculatedQuantity
  IN  IF Gt(MathAbs(Sub(computed, item.totalQuantity)), Tolerance)
      THEN <<mismatchFinding(item, computed)>>
      ELSE << >>

\* the rule with a tolerance of 0.001
CalculationMismatch_Tolerance001(item) ==
  LET computed == calculateQuantity(item)
  IN  IF Gt(MathAbs(Sub(computed, item.totalQuantity)), Rat(1, 1000))
      THEN <<mismatchFinding(item, computed)>>
      ELSE << >>

\* the rule firing from the tolerance on (>= in place of >)
CalculationMismatch_AtLeast(item) ==
  LET computed == calculateQuantity(item)
      diff == MathAbs(Sub(computed, item.totalQuantity))
  IN  IF Gt(diff, Tolerance) \/ diff = Tolerance
      THEN <<mismatchFinding(item, computed)>>
      ELSE << >>

\* lines 57-66: what the calculation-mismatch rule pushes for item
CalculationMismatch(item) ==
  LET computed == calculateQuantity(item)
  IN  IF Gt(MathAbs(Sub(computed, item.totalQuantity)), Tolerance)
      THEN <<mismatchFinding(item, computed)>>
      ELSE << >>

\* items.forEach(...) pushing onto results, from index i on
RECURSIVE forEach(_, _, _)
forEach(list, i, acc) ==
  IF i > Len(list) THEN acc
  ELSE forEach(list, i + 1,
               acc \o MissingDimension(list[i]) \o CalculationMismatch(list[i]))

\* the findings put in front of results instead of pushed at its end
RECURSIVE forEachUnshift(_, _, _)
forEachUnshift(list, i, acc) ==
  IF i > Len(list) THEN acc
  ELSE forEachUnshift(list, i + 1,
                      CalculationMismatch(list[i]) \o MissingDimension(list[i]) \o acc)

runStructuralRules_Unshift(list) == forEachUnshift(list, 1, << >>)

\* line 57: an exception of calculateQuantity, thrown at its line 15, leaves
\* forEach and the call
raises(list) == \E i \in DOMAIN list : locals(list[i]).unit = TypeError

\* the mismatch rule skipped for an item the missing-dimension rule reported
RECURSIVE forEachFirstRule(_, _, _)
forEachFirstRule(list, i, acc) ==
  IF i > Len(list) THEN acc
  ELSE forEachFirstRule(list, i + 1,
         acc \o (IF MissingDimension(list[i]) # << >>
                 THEN MissingDimension(list[i])
                 ELSE CalculationMismatch(list[i])))

runStructuralRules_FirstRuleOnly(list) == forEachFirstRule(list, 1, << >>)

\* a finding equal to one already in results is not pushed again
RECURSIVE forEachOnce(_, _, _)
forEachOnce(list, i, acc) ==
  IF i > Len(list) THEN acc
  ELSE LET found == MissingDimension(list[i]) \o CalculationMismatch(list[i])
           new == SelectSeq(found,
                            LAMBDA f : \A k \in DOMAIN acc : acc[k] # f)
       IN  forEachOnce(list, i + 1, acc \o new)

runStructuralRules_Deduplicated(list) == forEachOnce(list, 1, << >>)

\* results kept across calls instead of created by each call
runStructuralRules_SharedResults(list) == forEach(list, 1, results)

\* lines 42-69: results starts empty in every call
runStructuralRules(list) == forEach(list, 1, << >>)

\* lines 8-39: the item as calculateQuantity leaves it; the body assigns only
\* to its own locals
argAfter(item) == item

\* the list sorted in place: the items that raise a finding moved to the front
itemsAfter_FailingFirst(list) ==
  LET fails(i) == runStructuralRules(<<list[i]>>) # << >>
      front == SelectSeq([i \in 1..Len(list) |-> i], LAMBDA i : fails(i))
      back == SelectSeq([i \in 1..Len(list) |-> i], LAMBDA i : ~fails(i))
  IN  [k \in 1..Len(list) |-> list[(front \o back)[k]]]

\* lines 41-70: the list as runStructuralRules leaves it; forEach only reads
\* the items and push goes to the local results
itemsAfter(list) == list

\* addItem that stores the manual total as the calculated quantity
stored_ManualAsCalculated(row) ==
  [id |-> row.id,
   pozNumber |-> row.pozNumber,
   category |-> row.category,
   unit |-> row.unit,
   x |-> row.x,
   y |-> row.y,
   z |-> row.z,
   multiplier |-> row.multiplier,
   count |-> row.count,
   unitWeight |-> row.unitWeight,
   totalQuantity |-> row.totalQuantity,
   area |-> Mul(Or(row.x, Zero), Or(row.y, Zero)),
   volume |-> Mul(Mul(Or(row.x, Zero), Or(row.y, Zero)), Or(row.z, Zero)),
   calculatedQuantity |-> row.totalQuantity]

\* addItem: the row of the form stored as an item, with its derived fields
stored(row) ==
  [id |-> row.id,
   pozNumber |-> row.pozNumber,
   category |-> row.category,
   unit |-> row.unit,
   x |-> row.x,
   y |-> row.y,
   z |-> row.z,
   multiplier |-> row.multiplier,
   count |-> row.count,
   unitWeight |-> row.unitWeight,
   totalQuantity |-> row.totalQuantity,
   area |-> Mul(Or(row.x, Zero), Or(row.y, Zero)),
   volume |-> Mul(Mul(Or(row.x, Zero), Or(row.y, Zero)), Or(row.z, Zero)),
   calculatedQuantity |-> calculateQuantity(row)]

----------------------------------------------------------------------------
(* Inputs *)

MaxDim == 1

MaxTotal == 2

MaxItems == 3

\* every spelling of s with each letter in either case
RECURSIVE Spellings(_)
Spellings(s) ==
  IF s = << >> THEN {<< >>}
  ELSE {<<c>> \o rest : c \in {LowerOf(Head(s)), UpperOf(Head(s))},
                        rest \in Spellings(Tail(s))}

\* the four units of the dispatch in lower case, in upper case and capitalised
RecognizedUnits ==
  UNION {{u, Str([i \in 1..Len(u.s) |-> UpperOf(u.s[i])]),
          Str(<<UpperOf(Head(u.s))>> \o Tail(u.s))} : u \in {m3, m2, kg, ton}}

OtherUnits ==
  {Undefined, Str(<<>>), Str(<<"m">>), Str(<<"M">>), Str(<<"a", "d", "e", "t">>)}

Units == RecognizedUnits \cup OtherUnits

\* absent, 0.0625, and the even whole numbers 0, 2, ..
Dimensions ==
  {Undefined, Rat(1, 16)} \cup {Int2Num(2 * k) : k \in 0..MaxDim}

Factors == {Undefined, Zero, One, Int2Num(2)}

UnitWeights == {Undefined, Zero, Rat(3, 2), Int2Num(500)}

\* the partial items handed to calculateQuantity
CalcInputs ==
  [x : Dimensions, y : Dimensions, z : Dimensions,
   multiplier : Factors, count : Factors,
   unitWeight : UnitWeights, unit : Units]

\* partial items with NaN, a non-string unit that is falsy, negative values
DegradedInputs ==
  [x : {NaN, Zero, Int2Num(2), Int2Num(-2)},
   y : {NaN, Undefined, Int2Num(2)},
   z : {NaN, Zero, Int2Num(2)},
   multiplier : {NaN, Undefined, Int2Num(2), Int2Num(-1)},
   count : {NaN, One},
   unitWeight : {NaN, Rat(3, 2), Int2Num(-1)},
   unit : {Undefined, NaN, Zero, m3, kg, Str(<<"a", "d", "e", "t">>)}]

Categories == {"Concrete", "Formwork", "Reinforcement", "Finishing"}

\* manual totals: 0, 1, 2, 4, .. and the values 0.005, 0.01, 0.011 away from them
Totals ==
  {Rat(1000 * b + e, 1000) :
     b \in {0} \cup {2 ^ k : k \in 0..MaxTotal}, e \in {-11, -10, -5, 0, 5, 10, 11}}

\* the items handed to runStructuralRules one at a time
RuleItems ==
  [id : {"a"}, pozNumber : {"15.150.1001"},
   category : Categories,
   unit : {m3, Str(<<"M", "3">>), m2, kg, ton, Str(<<"a", "d", "e", "t">>)},
   x : {Zero, Rat(1, 16), Int2Num(2)},
   y : {Undefined, Zero, Int2Num(2)},
   z : {Undefined, Zero, Rat(1, 16), Int2Num(2)},
   multiplier : {Undefined, Int2Num(2)}, count : {One},
   unitWeight : {Undefined, Rat(1, 2)},
   totalQuantity : Totals]

\* items with NaN or absent fields, outside the missing-dimension check
DegradedItems ==
  [id : {"a"}, pozNumber : {"15.150.1001"},
   category : {"Finishing"},
   unit : {Undefined, kg},
   x : {NaN, Undefined, Int2Num(2)},
   y : {NaN, Int2Num(2)},
   z : {NaN, Zero},
   multiplier : {NaN, Undefined}, count : {NaN, One},
   unitWeight : {NaN, Rat(1, 2)},
   totalQuantity : {Zero, Int2Num(2)}]

\* a 4 x 3 x 0.3 slab in m3 with manual totals 3.6, 3.61 and 3.62
ExampleItems ==
  [id : {"a"}, pozNumber : {"15.150.1001"},
   category : {"Concrete", "Formwork"},
   unit : {m3},
   x : {Int2Num(4)}, y : {Int2Num(3)}, z : {Zero, Rat(3, 10)},
   multiplier : {One}, count : {One},
   unitWeight : {Zero},
   totalQuantity : {Rat(360, 100), Rat(361, 100), Rat(362, 100)}]

\* items read back from localStorage: the stored derived fields are whatever
\* was saved, here a calculatedQuantity of 0 or of 3.62
SavedItems ==
  {[stored(item) EXCEPT !.calculatedQuantity = c] :
     item \in ExampleItems, c \in {Zero, Rat(362, 100)}}

\* the items of the longer lists
ListItems ==
  [id : {"a", "b", "c"}, pozNumber : {"15.150.1001"},
   category : {"Concrete"},
   unit : {m3},
   x : {Int2Num(2)}, y : {Zero, Int2Num(2)}, z : {Int2Num(2)},
   multiplier : {One}, count : {One},
   unitWeight : {Zero},
   totalQuantity : {Zero, Int2Num(8)}]

\* the lists of n items
ItemLists(n) == [1..n -> ListItems]

----------------------------------------------------------------------------
(* The callers *)

NoItem == [t |-> "none"]

NoCall == [fn |-> "none"]

Null == [t |-> "null"]

NoHandler == [name |-> "none"]

\* lines 120-143: the application as mounted on an empty localStorage; no
\* upload and no audit is awaited, and the clock reads 1
AppStart ==
  /\ projects = << >>
  /\ auditHistory = << >>
  /\ currentProjectId = Null
  /\ screen = "ONBOARDING"
  /\ isSidebarOpen = FALSE
  /\ isAnalyzing = FALSE
  /\ aiAnalysis = Null
  /\ importPreview = Null
  /\ parsedItemsPreview = << >>
  /\ upload = Null
  /\ audits = {}
  /\ now = 1
  /\ handler = NoHandler

Init ==
  /\ pc = "idle"
  /\ arg = NoItem
  /\ quantity = Undefined
  /\ items = << >>
  /\ results = << >>
  /\ earlier = NoCall
  /\ AppStart

\* a caller evaluates calculateQuantity(item)
CallCalculateQuantity ==
  /\ pc = "idle"
  /\ \/ \E item \in CalcInputs :
          /\ arg' = argAfter(item)
          /\ quantity' = calculateQuantity(item)
     \/ \E item \in DegradedInputs :
          /\ arg' = argAfter(item)
          /\ quantity' = calculateQuantity(item)
  /\ pc' = IF quantity' = TypeError THEN "raised" ELSE "calculated"
  /\ UNCHANGED <<items, results, earlier>>
  /\ UNCHANGED appVars

\* a caller evaluates runStructuralRules(list), on one item or on a longer list
CallRunStructuralRules ==
  /\ pc = "idle"
  /\ \/ \E item \in RuleItems :
          LET list == <<stored(item)>>
          IN  /\ items' = itemsAfter(list)
              /\ results' = runStructuralRules(list)
     \/ \E item \in DegradedItems :
          LET list == <<stored(item)>>
          IN  /\ items' = itemsAfter(list)
              /\ results' = runStructuralRules(list)
     \/ \E item \in ExampleItems :
          LET list == <<stored(item)>>
          IN  /\ items' = itemsAfter(list)
              /\ results' = runStructuralRules(list)
     \/ \E item \in SavedItems :
          /\ items' = itemsAfter(<<item>>)
          /\ results' = runStructuralRules(<<item>>)
     \/ \E n \in 0..MaxItems : \E rows \in ItemLists(n) :
          LET list == [i \in 1..n |-> stored(rows[i])]
          IN  /\ items' = itemsAfter(list)
              /\ results' = runStructuralRules(list)
  /\ pc' = IF raises(items') THEN "raised" ELSE "validated"
  /\ UNCHANGED <<arg, quantity, earlier>>
  /\ UNCHANGED appVars

\* the caller drops the result
Return ==
  /\ pc # "idle"
  /\ pc' = "idle"
  /\ arg' = NoItem
  /\ quantity' = Undefined
  /\ items' = << >>
  /\ results' = << >>
  /\ UNCHANGED earlier
  /\ UNCHANGED appVars

Next == CallCalculateQuantity \/ CallRunStructuralRules \/ Return

Spec == Init /\ [][Next]_vars

\* the callers of calculateQuantity alone, and of runStructuralRules alone
NextCalculate == CallCalculateQuantity \/ Return

SpecCalculate == Init /\ [][NextCalculate]_vars

NextValidate == CallRunStructuralRules \/ Return

SpecValidate == Init /\ [][NextValidate]_vars

----------------------------------------------------------------------------
(* A session: one caller holding a form row and an item list, calling both  *)
(* functions again and again on what it holds, as the input view does on    *)
(* every change of newRow and of the active project.  The outputs of the    *)
(* last calls stay in quantity and results; earlier remembers one call made *)
(* before, and whether a different call was made since.                     *)

MaxSession == 2

SessionRows ==
  [x : {Int2Num(2)}, y : {Undefined, Int2Num(2)}, z : {Int2Num(2)},
   multiplier : {Undefined}, count : {One},
   unitWeight : {Rat(3, 2)}, unit : {m3, kg}]

SessionItems ==
  {stored(row) :
     row \in [id : {"a"}, pozNumber : {"15.150.1001"},
              category : {"Concrete"}, unit : {m3},
              x : {Int2Num(2)}, y : {Zero, Int2Num(2)}, z : {Int2Num(2)},
              multiplier : {One}, count : {One}, unitWeight : {Zero},
              totalQuantity : {Int2Num(8)}]}

SessionLists == UNION {[1..n -> SessionItems] : n \in 0..MaxSession}

SessionInit ==
  /\ pc = "idle"
  /\ arg \in SessionRows
  /\ quantity = Undefined
  /\ items \in SessionLists
  /\ results = << >>
  /\ earlier = NoCall
  /\ AppStart

\* the history of the call fn(input) = output: it becomes the remembered
\* call, or the remembered call notes a different call made after it
Remember(fn, input, output) ==
  \/ earlier' = [fn |-> fn, input |-> input, output |-> output,
                 between |-> FALSE]
  \/ earlier' =
       IF earlier.fn = "none" THEN earlier
       ELSE IF earlier.fn = fn /\ earlier.input = input THEN earlier
       ELSE [earlier EXCEPT !.between = TRUE]

\* calculatedVal: calculateQuantity(newRow)
SessionCalculate ==
  /\ quantity' = calculateQuantity(arg)
  /\ arg' = argAfter(arg)
  /\ pc' = IF quantity' = TypeError THEN "raised" ELSE "calculated"
  /\ Remember("calculateQuantity", arg, quantity')
  /\ UNCHANGED <<items, results>>
  /\ UNCHANGED appVars

\* validationResults: runStructuralRules(activeProject.items)
SessionValidate ==
  /\ results' = runStructuralRules(items)
  /\ items' = itemsAfter(items)
  /\ pc' = IF raises(items) THEN "raised" ELSE "validated"
  /\ Remember("runStructuralRules", items, results')
  /\ UNCHANGED <<arg, quantity>>
  /\ UNCHANGED appVars

\* setNewRow: the form row is replaced
SessionSetNewRow ==
  /\ \E row \in SessionRows : arg' = row
  /\ pc' = "idle"
  /\ UNCHANGED <<quantity, items, results, earlier>>
  /\ UNCHANGED appVars

\* setItems: the item list of the active project is replaced
SessionSetItems ==
  /\ \E list \in SessionLists : items' = list
  /\ pc' = "idle"
  /\ UNCHANGED <<arg, quantity, results, earlier>>
  /\ UNCHANGED appVars

SessionNext ==
  SessionCalculate \/ SessionValidate \/ SessionSetNewRow \/ SessionSetItems

Session == SessionInit /\ [][SessionNext]_vars

----------------------------------------------------------------------------
(* The application.  Layout and preference state that no handler below      *)
(* reads (isSidebarCollapsed, guideContent, language, settings,             *)
(* viewingAudit) is left out, and so is the copy of projects and            *)
(* auditHistory that lines 148-150 keep in localStorage.  now is the        *)
(* reading of Date.now(): it advances after every step that stores a        *)
(* reading, so two stored readings differ.  An awaited analysis is held in  *)
(* audits under the first free slot.  handler remembers the last handler    *)
(* that ran, with what it was called on.                                    *)

MaxClock == 3

MaxProjects == 2

MaxProjectItems == 2

MaxPending == 2

\* Date.now().toString() at the clock reading t
toString(t) == Str(<<ToString(t)>>)

\* line 324: `excel-${Date.now()}-${i}`
excelId(t, i) == Str(<<"excel-", ToString(t), "-", ToString(i)>>)

Digits == <<"0", "1", "2", "3", "4", "5", "6", "7", "8", "9">>

IsDigit(c) == \E d \in 0..9 : Digits[d + 1] = c

DigitOf(c) == CHOOSE d \in 0..9 : Digits[d + 1] = c

RECURSIVE Pow10(_)
Pow10(k) == IF k = 0 THEN 1 ELSE 10 * Pow10(k - 1)

\* the number of digits of s from position i on
RECURSIVE digitRun(_, _)
digitRun(s, i) ==
  IF i <= Len(s) /\ IsDigit(s[i]) THEN 1 + digitRun(s, i + 1) ELSE 0

\* the value of the k digits of s from position i on
RECURSIVE digitsValue(_, _, _)
digitsValue(s, i, k) ==
  IF k = 0 THEN 0 ELSE 10 * digitsValue(s, i, k - 1) + DigitOf(s[i + k - 1])

\* parseFloat of a string of the characters - . 0-9: the longest prefix that
\* is a decimal number, NaN when there is none
parseFloat(s) ==
  LET neg == Len(s) >= 1 /\ s[1] = "-"
      start == IF neg THEN 2 ELSE 1
      whole == digitRun(s, start)
      dot == start + whole
      frac == IF dot <= Len(s) /\ s[dot] = "." THEN digitRun(s, dot + 1) ELSE 0
      n == digitsValue(s, start, whole) * Pow10(frac) + digitsValue(s, dot + 1, frac)
  IN  IF whole + frac = 0 THEN NaN
      ELSE Rat(IF neg THEN 0 - n ELSE n, Pow10(frac))

\* the decimal digits of a natural number
RECURSIVE decimal(_)
decimal(n) ==
  IF n < 10 THEN <<Digits[n + 1]>>
  ELSE Append(decimal(n \div 10), Digits[(n % 10) + 1])

\* String(v) of a string and of a whole number
String(v) ==
  CASE v.t = "str" -> v
    [] v.t = "num" /\ v.d = 1 /\ v.n >= 0 -> Str(decimal(v.n))

\* lines 294-302
parseMetrajValue(val) ==
  IF val = Undefined \/ val = Null \/ val = Str(<< >>) THEN Zero
  ELSE IF val.t = "num" \/ val.t = "NaN" THEN val
  ELSE LET noDots == SelectSeq(val.s, LAMBDA c : c # ".")
           points == [i \in DOMAIN noDots |->
                        IF noDots[i] = "," THEN "." ELSE noDots[i]]
           cleaned == SelectSeq(points,
                        LAMBDA c : c = "-" \/ c = "." \/ IsDigit(c))
       IN  Or(parseFloat(cleaned), Zero)

\* cols[idx] of a sheet row, whose first cell has index 0
cell(cols, idx) == IF idx + 1 \in DOMAIN cols THEN cols[idx + 1] ELSE Undefined

\* lines 308-327: the item made of the sheet row cols, the i-th kept row of
\* an import prepared at the clock reading t
parsedItem(cols, mapping, t, i) ==
  LET itemBase ==
        [id |-> excelId(t, i),
         pozNumber |-> String(Or(cell(cols, mapping.pozNumber), Str(<< >>))),
         category |-> Or(cell(cols, mapping.category), "Concrete"),
         unit |-> String(Or(cell(cols, mapping.unit), m3)),
         multiplier |-> Or(parseMetrajValue(cell(cols, mapping.multiplier)), One),
         x |-> parseMetrajValue(cell(cols, mapping.x)),
         y |-> parseMetrajValue(cell(cols, mapping.y)),
         z |-> parseMetrajValue(cell(cols, mapping.z)),
         unitWeight |-> parseMetrajValue(cell(cols, mapping.unitWeight)),
         count |-> Or(parseMetrajValue(cell(cols, mapping.count)), One),
         totalQuantity |-> parseMetrajValue(cell(cols, mapping.totalQuantity))]
  IN  stored(itemBase)

\* lines 304-329: the items of the import preview, none without a preview
parsedItems(preview, t) ==
  IF preview = Null THEN << >>
  ELSE LET rows == SubSeq(preview.rawRows, preview.startRow + 1,
                          Len(preview.rawRows))
           kept == SelectSeq(rows,
                     LAMBDA r : \/ Truthy(cell(r, preview.mapping.pozNumber))
                                \/ Truthy(cell(r, preview.mapping.description)))
       IN  [i \in DOMAIN kept |->
              parsedItem(kept[i], preview.mapping, t, i - 1)]

\* lines 366-378: the item addItem makes of the form row at the reading t
addedItem(newRow, t) == stored([newRow EXCEPT !.id = toString(t)])

\* a settled promise
Fulfilled(v) == [state |-> "fulfilled", value |-> v]

Rejected == [state |-> "rejected"]

SyntaxError == [t |-> "SyntaxError"]

\* the object {}
EmptyObject == [t |-> "object"]

\* part_000 lines 77-80: the mapping analyzeExcelStructure falls back to
FallbackStructure ==
  [mapping |-> [pozNumber |-> 0, description |-> 1, unit |-> 2,
                multiplier |-> 3, x |-> 4, y |-> 5, z |-> 6, area |-> -1,
                volume |-> -1, unitWeight |-> -1, count |-> 7,
                totalQuantity |-> 8, category |-> -1],
   startRow |-> 1]

\* part_000 line 129: the analysis getAIExpertAnalysis falls back to
FailedAnalysis ==
  [riskScore |-> Zero, summary |-> "Analysis failed", findings |-> << >>]

\* a structure and an analysis as the model answers them, and their texts
AnsweredStructure ==
  [mapping |-> [FallbackStructure.mapping EXCEPT !.count = -1],
   startRow |-> 1]

AnsweredAnalysis ==
  [riskScore |-> Int2Num(70), summary |-> "Risk",
   findings |-> <<[title |-> "Beton", explanation |-> "Eksik boyut",
                   standard |-> "TS 500", severity |-> "CRITICAL"]>>]

StructureText == Str(<<"{", "mapping", "}">>)

AnalysisText == Str(<<"{", "riskScore", "}">>)

\* JSON.parse of the texts a response holds; every other text is no JSON
JSONparse(text) ==
  CASE text = StructureText -> AnsweredStructure
    [] text = AnalysisText -> AnsweredAnalysis
    [] text = Str(<<"{", "}">>) -> EmptyObject
    [] OTHER -> SyntaxError

RECURSIVE trimStart(_)
trimStart(s) == IF s # << >> /\ Head(s) = " " THEN trimStart(Tail(s)) ELSE s

RECURSIVE trimEnd(_)
trimEnd(s) ==
  IF s # << >> /\ s[Len(s)] = " " THEN trimEnd(SubSeq(s, 1, Len(s) - 1)) ELSE s

\* text.trim()
trim(text) == Str(trimEnd(trimStart(text.s)))

\* What a call of the model does.  "throws": the code ahead of the try
\* block (new GoogleGenAI, the prompt) throws; "rejects": generateContent
\* rejects; "responds": it resolves to a response with the given text.
Throws == [kind |-> "throws"]

Rejects == [kind |-> "rejects"]

Responds(text) == [kind |-> "responds", text |-> text]

\* the empty responses: no text, the empty text
EmptyResponses == {Responds(Undefined), Responds(Str(<< >>))}

StructureOutcomes ==
  {Throws, Rejects, Responds(StructureText), Responds(Str(<<"<">>))}
    \cup EmptyResponses

AnalysisOutcomes ==
  {Throws, Rejects, Responds(AnalysisText), Responds(Str(<<"<">>))}
    \cup EmptyResponses

\* part_000 lines 4-82: how the promise of analyzeExcelStructure settles
analyzeExcelStructure(outcome) ==
  IF outcome.kind = "throws" THEN Rejected
  ELSE IF outcome.kind = "rejects" THEN Fulfilled(FallbackStructure)
  ELSE IF ~Truthy(outcome.text) THEN Fulfilled(FallbackStructure)
  ELSE LET parsed == JSONparse(trim(outcome.text))
       IN  IF parsed = SyntaxError THEN Fulfilled(FallbackStructure)
           ELSE Fulfilled(parsed)

\* part_000 lines 84-131: how the promise of getAIExpertAnalysis settles
getAIExpertAnalysis(outcome) ==
  IF outcome.kind = "throws" THEN Rejected
  ELSE IF outcome.kind = "rejects" THEN Fulfilled(FailedAnalysis)
  ELSE LET text == Or(IF outcome.text = Undefined THEN Undefined
                      ELSE trim(outcome.text),
                      Str(<<"{", "}">>))
           parsed == JSONparse(text)
       IN  IF parsed = SyntaxError THEN Fulfilled(FailedAnalysis)
           ELSE Fulfilled(parsed)

\* lines 152-155: projects.find(p => p.id === id)
find(list, id) ==
  IF \E i \in DOMAIN list : list[i].id = id
  THEN list[CHOOSE i \in DOMAIN list :
              /\ list[i].id = id
              /\ \A j \in 1..(i - 1) : list[j].id # id]
  ELSE Undefined

activeProject == find(projects, currentProjectId)

\* the rows of the add-row form at submit (lines 288-290, 545-561)
FormRows ==
  [id : {Undefined}, pozNumber : {Str(<<"1", "5">>)},
   category : {"Concrete"}, unit : {m3},
   x : {Int2Num(2)}, y : {Zero, Int2Num(2)}, z : {Int2Num(2)},
   multiplier : {One}, count : {One}, unitWeight : {Zero},
   totalQuantity : {Int2Num(8)}]

\* the sheets of an upload: a header row and a row of 2 x 2 x 0,5 in m3
\* with the manual total 2 or 2,5
HeaderRow ==
  <<Str(<<"P", "o", "z">>), Str(<<"A">>), Str(<<"B">>), Str(<<"N">>),
    Str(<<"X">>), Str(<<"Y">>), Str(<<"Z">>), Str(<<"A">>), Str(<<"T">>)>>

SheetRows ==
  {<<Int2Num(15), Str(<<"C", "2", "5">>), unit, Undefined,
     Int2Num(2), Int2Num(2), Str(<<"0", ",", "5">>), Int2Num(3), total>> :
     unit \in {Undefined, m3},
     total \in {Int2Num(2), Str(<<"2", ",", "5">>)}}

Sheets == {<<HeaderRow, row>> : row \in SheetRows}

Names == {"Konut"}

NavTargets == {"DASHBOARD", "INPUT", "HISTORY", "AI_PANEL", "REPORTS",
               "SETTINGS"}

\* the clock readings that the awaited calls will take when they settle
Reserved == Cardinality(audits) + (IF upload = Null THEN 0 ELSE 1)

\* k more readings of the clock can be taken
CanRead(k) == (now - 1) + Reserved + k <= MaxClock

\* the first slot that holds no awaited analysis
FreeSlot ==
  CHOOSE k \in 1..(Cardinality(audits) + 1) : \A a \in audits : a.slot # k

\* the input view leaves the screen: its state is dropped, and what it
\* still awaits settles into a view that is gone
InputView(target) ==
  IF screen = "INPUT" /\ target # "INPUT"
  THEN /\ importPreview' = Null
       /\ parsedItemsPreview' = << >>
       /\ upload' = Null
  ELSE UNCHANGED <<importPreview, parsedItemsPreview, upload>>

\* deleteProject that leaves the current project id as it is
deleteProject_KeepsCurrent(id) ==
  /\ projects' = SelectSeq(projects, LAMBDA p : p.id # id)
  /\ UNCHANGED currentProjectId

\* updateItems that replaces the items of every project
updateItems_EveryProject(newItems) ==
  projects' = IF ~Truthy(currentProjectId) THEN projects
              ELSE [i \in DOMAIN projects |->
                      [projects[i] EXCEPT !.items = newItems]]

\* lines 162-167
createProject(name) ==
  LET newProj == [id |-> toString(now), name |-> name, createdAt |-> now,
                  items |-> << >>]
  IN  /\ projects' = Append(projects, newProj)
      /\ currentProjectId' = newProj.id
      /\ screen' = "INPUT"

\* lines 169-172
deleteProject(id) ==
  /\ projects' = SelectSeq(projects, LAMBDA p : p.id # id)
  /\ currentProjectId' = IF currentProjectId = id THEN Null
                         ELSE currentProjectId

\* lines 174-177
updateItems(newItems) ==
  projects' = IF ~Truthy(currentProjectId) THEN projects
              ELSE [i \in DOMAIN projects |->
                      IF projects[i].id = currentProjectId
                      THEN [projects[i] EXCEPT !.items = newItems]
                      ELSE projects[i]]

\* lines 179-184: runFullAudit up to its await.  The rules run on the items;
\* were they to throw, catch and finally would follow at once.
runFullAudit ==
  IF activeProject = Undefined
  THEN UNCHANGED <<isAnalyzing, screen, isSidebarOpen, audits>>
  ELSE IF raises(activeProject.items)
  THEN /\ isAnalyzing' = FALSE
       /\ screen' = "VALIDATION"
       /\ isSidebarOpen' = FALSE
       /\ UNCHANGED audits
  ELSE /\ isAnalyzing' = TRUE
       /\ screen' = "VALIDATION"
       /\ audits' = audits \cup {[slot |-> FreeSlot,
                                  activeProject |-> activeProject]}
       /\ UNCHANGED isSidebarOpen

\* line 187: the record of an audit of project p that ends at the reading t
newRecord(p, analysis, t) ==
  [id |-> toString(t), projectId |-> p.id, projectName |-> p.name,
   date |-> t, analysis |-> analysis, itemCount |-> Len(p.items),
   riskScore |-> IF "riskScore" \in DOMAIN analysis THEN analysis.riskScore
                 ELSE Undefined]

\* lines 184-190: runFullAudit from its await on, for the pending audit a
\* whose analysis settles as settled
runFullAuditResumed(a, settled) ==
  /\ IF settled.state = "fulfilled"
     THEN /\ aiAnalysis' = settled.value
          /\ auditHistory' =
               <<newRecord(a.activeProject, settled.value, now)>> \o auditHistory
          /\ screen' = "AI_PANEL"
          /\ InputView("AI_PANEL")
     ELSE UNCHANGED <<aiAnalysis, auditHistory, screen, importPreview,
                      parsedItemsPreview, upload>>
  /\ isAnalyzing' = FALSE
  /\ isSidebarOpen' = FALSE
  /\ audits' = audits \ {a}

\* lines 193-198
clearAllData(confirmed) ==
  IF confirmed
  THEN /\ projects' = << >>
       /\ auditHistory' = << >>
       /\ currentProjectId' = Null
       /\ screen' = "ONBOARDING"
  ELSE UNCHANGED <<projects, auditHistory, currentProjectId, screen>>

\* line 579: the status of a row of the items table
hasError(item) ==
  Gt(MathAbs(Sub(item.calculatedQuantity, item.totalQuantity)), Rat(1, 100))

\* line 254: the onboarding view completes
OnComplete ==
  /\ screen = "ONBOARDING"
  /\ screen' = "DASHBOARD"
  /\ handler' = [name |-> "onComplete"]
  /\ UNCHANGED <<projects, auditHistory, currentProjectId, isSidebarOpen,
                 isAnalyzing, aiAnalysis, importPreview, parsedItemsPreview,
                 upload, audits, now>>
  /\ UNCHANGED engineVars

\* line 227: the menu button of the header
OpenSidebar ==
  /\ screen # "ONBOARDING"
  /\ ~isSidebarOpen
  /\ isSidebarOpen' = TRUE
  /\ handler' = [name |-> "openSidebar"]
  /\ UNCHANGED <<projects, auditHistory, currentProjectId, screen,
                 isAnalyzing, aiAnalysis, importPreview, parsedItemsPreview,
                 upload, audits, now>>
  /\ UNCHANGED engineVars

\* lines 268-269: an item of the sidebar
NavItem ==
  /\ screen # "ONBOARDING"
  /\ \E target \in NavTargets :
       /\ screen' = target
       /\ InputView(target)
       /\ handler' = [name |-> "NavItem", target |-> target]
  /\ isSidebarOpen' = FALSE
  /\ UNCHANGED <<projects, auditHistory, currentProjectId, isAnalyzing,
                 aiAnalysis, audits, now>>
  /\ UNCHANGED engineVars

\* line 626: the project hub creates a project
CreateProject ==
  /\ screen = "DASHBOARD"
  /\ Len(projects) < MaxProjects
  /\ CanRead(1)
  /\ \E name \in Names : createProject(name)
  /\ now' = now + 1
  /\ handler' = [name |-> "createProject"]
  /\ UNCHANGED <<auditHistory, isSidebarOpen, isAnalyzing, aiAnalysis,
                 importPreview, parsedItemsPreview, upload, audits>>
  /\ UNCHANGED engineVars

\* lines 255, 635: the project hub selects a project
OnSelect ==
  /\ screen = "DASHBOARD"
  /\ \E i \in DOMAIN projects :
       /\ currentProjectId' = projects[i].id
       /\ handler' = [name |-> "onSelect", id |-> projects[i].id]
  /\ screen' = "INPUT"
  /\ UNCHANGED <<projects, auditHistory, isSidebarOpen, isAnalyzing,
                 aiAnalysis, importPreview, parsedItemsPreview, upload,
                 audits, now>>
  /\ UNCHANGED engineVars

\* line 633: the project hub deletes a project
DeleteProject ==
  /\ screen = "DASHBOARD"
  /\ \E i \in DOMAIN projects :
       /\ deleteProject(projects[i].id)
       /\ handler' = [name |-> "deleteProject", id |-> projects[i].id,
                      current |-> currentProjectId]
  /\ UNCHANGED <<auditHistory, screen, isSidebarOpen, isAnalyzing,
                 aiAnalysis, importPreview, parsedItemsPreview, upload,
                 audits, now>>
  /\ UNCHANGED engineVars

\* line 260: the settings view clears the data, if the user confirms
ClearAllData ==
  /\ screen = "SETTINGS"
  /\ \E confirmed \in BOOLEAN :
       /\ clearAllData(confirmed)
       /\ handler' = [name |-> "clearAllData", confirmed |-> confirmed]
  /\ UNCHANGED <<isSidebarOpen, isAnalyzing, aiAnalysis, importPreview,
                 parsedItemsPreview, upload, audits, now>>
  /\ UNCHANGED engineVars

\* lines 366-378: the add-row form is submitted
AddItem ==
  /\ screen = "INPUT"
  /\ activeProject # Undefined
  /\ Len(activeProject.items) < MaxProjectItems
  /\ CanRead(1)
  /\ \E newRow \in FormRows :
       updateItems(<<addedItem(newRow, now)>> \o activeProject.items)
  /\ now' = now + 1
  /\ handler' = [name |-> "addItem", current |-> currentProjectId]
  /\ UNCHANGED <<auditHistory, currentProjectId, screen, isSidebarOpen,
                 isAnalyzing, aiAnalysis, importPreview, parsedItemsPreview,
                 upload, audits>>
  /\ UNCHANGED engineVars

\* line 256: the prop setItems called while no project is active.  The
\* input view draws no control then (line 275); the guard of updateItems
\* answers any other holder of the prop.
SetItems ==
  /\ screen = "INPUT"
  /\ activeProject = Undefined
  /\ \E newRow \in FormRows : updateItems(<<addedItem(newRow, now)>>)
  /\ handler' = [name |-> "setItems", current |-> currentProjectId]
  /\ UNCHANGED <<auditHistory, currentProjectId, screen, isSidebarOpen,
                 isAnalyzing, aiAnalysis, importPreview, parsedItemsPreview,
                 upload, audits, now>>
  /\ UNCHANGED engineVars

\* lines 331-364: a file is chosen; the button is disabled while an upload
\* is analysed (line 417)
HandleFileUpload ==
  /\ screen = "INPUT"
  /\ activeProject # Undefined
  /\ upload = Null
  /\ importPreview = Null
  /\ CanRead(1)
  /\ \E sheet \in Sheets : upload' = [rawRows |-> sheet]
  /\ handler' = [name |-> "handleFileUpload"]
  /\ UNCHANGED <<projects, auditHistory, currentProjectId, screen,
                 isSidebarOpen, isAnalyzing, aiAnalysis, importPreview,
                 parsedItemsPreview, audits, now>>
  /\ UNCHANGED engineVars

\* lines 338-360: analyzeExcelStructure settles; a rejection is caught and
\* alerted.  The preview's items are made in the render that follows.
OnLoad ==
  /\ upload # Null
  /\ \E outcome \in StructureOutcomes :
       LET settled == analyzeExcelStructure(outcome)
       IN  /\ IF settled.state = "fulfilled"
              THEN /\ importPreview' = [mapping |-> settled.value.mapping,
                                        rawRows |-> upload.rawRows,
                                        startRow |-> settled.value.startRow]
                   /\ parsedItemsPreview' = parsedItems(importPreview', now)
              ELSE UNCHANGED <<importPreview, parsedItemsPreview>>
           /\ handler' = [name |-> "onload", outcome |-> outcome,
                          settled |-> settled]
  /\ upload' = Null
  /\ now' = now + 1
  /\ UNCHANGED <<projects, auditHistory, currentProjectId, screen,
                 isSidebarOpen, isAnalyzing, aiAnalysis, audits>>
  /\ UNCHANGED engineVars

\* lines 447, 523: the import preview is closed
CancelImport ==
  /\ importPreview # Null
  /\ importPreview' = Null
  /\ parsedItemsPreview' = << >>
  /\ handler' = [name |-> "cancelImport"]
  /\ UNCHANGED <<projects, auditHistory, currentProjectId, screen,
                 isSidebarOpen, isAnalyzing, aiAnalysis, upload, audits, now>>
  /\ UNCHANGED engineVars

\* lines 529-532: the import is confirmed
ConfirmImport ==
  /\ importPreview # Null
  /\ activeProject # Undefined
  /\ Len(parsedItemsPreview) + Len(activeProject.items) <= MaxProjectItems
  /\ updateItems(parsedItemsPreview \o activeProject.items)
  /\ importPreview' = Null
  /\ parsedItemsPreview' = << >>
  /\ handler' = [name |-> "confirmImport", current |-> currentProjectId]
  /\ UNCHANGED <<auditHistory, currentProjectId, screen, isSidebarOpen,
                 isAnalyzing, aiAnalysis, upload, audits, now>>
  /\ UNCHANGED engineVars

\* line 595: a row of the table is deleted
DeleteRow ==
  /\ screen = "INPUT"
  /\ activeProject # Undefined
  /\ \E i \in DOMAIN activeProject.items :
       /\ updateItems(SelectSeq(activeProject.items,
                        LAMBDA it : it.id # activeProject.items[i].id))
       /\ handler' = [name |-> "deleteRow", id |-> activeProject.items[i].id,
                      current |-> currentProjectId]
  /\ UNCHANGED <<auditHistory, currentProjectId, screen, isSidebarOpen,
                 isAnalyzing, aiAnalysis, importPreview, parsedItemsPreview,
                 upload, audits, now>>
  /\ UNCHANGED engineVars

\* lines 256, 422: the prop onAudit is called.  Without an active project
\* the input view draws no button (line 275); the guard of runFullAudit
\* answers any other holder of the prop.
OnAudit ==
  /\ screen = "INPUT"
  /\ \/ activeProject = Undefined
     \/ Cardinality(audits) < MaxPending /\ CanRead(1)
  /\ runFullAudit
  /\ InputView(IF activeProject = Undefined THEN screen ELSE "VALIDATION")
  /\ handler' = [name |-> "runFullAudit", current |-> currentProjectId]
  /\ UNCHANGED <<projects, auditHistory, currentProjectId, aiAnalysis, now>>
  /\ UNCHANGED engineVars

\* the analysis awaited in slot k settles
Resume(k) ==
  /\ \E a \in audits :
       /\ a.slot = k
       /\ \E outcome \in AnalysisOutcomes :
            /\ runFullAuditResumed(a, getAIExpertAnalysis(outcome))
            /\ handler' = [name |-> "runFullAudit.resumed", slot |-> k,
                           outcome |-> outcome]
  /\ now' = now + 1
  /\ UNCHANGED <<projects, currentProjectId>>
  /\ UNCHANGED engineVars

\* lines 184-190: an awaited analysis settles
OnSettled == \E k \in 1..MaxPending : Resume(k)

AppNext ==
  \/ OnComplete
  \/ OpenSidebar
  \/ NavItem
  \/ CreateProject
  \/ OnSelect
  \/ DeleteProject
  \/ ClearAllData
  \/ AddItem
  \/ SetItems
  \/ HandleFileUpload
  \/ OnLoad
  \/ CancelImport
  \/ ConfirmImport
  \/ DeleteRow
  \/ OnAudit
  \/ OnSettled

App == Init /\ [][AppNext]_vars

\* App, where every awaited call settles: the model call of the upload and
\* the model call of each audit come back, and the continuation then runs
AppFair ==
  /\ App
  /\ WF_vars(OnLoad)
  /\ \A k \in 1..MaxPending : WF_vars(Resume(k))

----------------------------------------------------------------------------
(* Vocabulary of the properties *)

\* a dimension that is zero or absent
Missing(d) == d = Undefined \/ d = Zero

\* |q - t| > 0.01 for numbers q and t, in integers
Exceeds(q, t) == 100 * Abs(q.n * t.d - t.n * q.d) > q.d * t.d

IsMismatchFinding(f) ==
  f.standardReference = "Matematiksel Dogrulama" /\ f.severity = "CRITICAL"

IsMissingFinding(f) ==
  f.standardReference = "TS 500" /\ f.severity = "CRITICAL"

\* the positions of the findings of item id, and of one rule among them
FindingsOf(id) == {k \in DOMAIN results : results[k].itemId = id}

MismatchesOf(id) == {k \in FindingsOf(id) : IsMismatchFinding(results[k])}

MissingsOf(id) == {k \in FindingsOf(id) : IsMissingFinding(results[k])}

ItemsOf(id) == {i \in DOMAIN items : items[i].id = id}

Ids == {items[i].id : i \in DOMAIN items}

DistinctIds == \A i, j \in DOMAIN items : items[i].id = items[j].id => i = j

ConcreteM3(it) == it.category = "Concrete" /\ it.unit = m3

SomeDimensionMissing(it) == Missing(it.x) \/ Missing(it.y) \/ Missing(it.z)

\* C1: runStructuralRules emits a CRITICAL 'Matematiksel Dogrulama' finding for
\* an item exactly when |calculateQuantity(item) - totalQuantity| > 0.01,
\* whatever its category and unit, on either side of the computed value: the
\* mismatch findings of an id are as many as the items of that id that exceed
\* the tolerance, and every finding of the mismatch rule is CRITICAL.
C1_MismatchIffExceeds ==
  pc = "validated" =>
    /\ \A id \in Ids :
         Cardinality(MismatchesOf(id)) =
           Cardinality({i \in ItemsOf(id) :
                          Exceeds(calculateQuantity(items[i]), items[i].totalQuantity)})
    /\ \A k \in DOMAIN results :
         results[k].standardReference = "Matematiksel Dogrulama"
           => results[k].severity = "CRITICAL" /\ results[k].itemId \in Ids

\* a Formwork item in kg whose manual total is exactly 0.01 above the computed
\* quantity passes, none being reported
C1_Witness ==
  /\ pc = "validated"
  /\ Len(items) = 1
  /\ items[1].category = "Formwork"
  /\ items[1].unit = kg
  /\ calculateQuantity(items[1]) = Int2Num(2)
  /\ Sub(items[1].totalQuantity, calculateQuantity(items[1])) = Rat(1, 100)
  /\ results = << >>

\* C2: a Concrete item of unit 'm3' gets exactly one CRITICAL 'TS 500' finding
\* carrying its id when one of x, y, z is zero or absent, and none when all
\* three are non-zero.
C2_MissingDimension ==
  pc = "validated" =>
    \A id \in Ids :
      (\A i \in ItemsOf(id) : ConcreteM3(items[i])) =>
        Cardinality(MissingsOf(id)) =
          Cardinality({i \in ItemsOf(id) : SomeDimensionMissing(items[i])})

\* x = 2, y = 0, z = 2 in Concrete / m3 with a matching total: one finding, TS 500
C2_Witness ==
  /\ pc = "validated"
  /\ Len(items) = 1
  /\ ConcreteM3(items[1])
  /\ items[1].x = Int2Num(2) /\ items[1].y = Zero /\ items[1].z = Int2Num(2)
  /\ Len(results) = 1
  /\ IsMissingFinding(results[1])
  /\ results[1].itemId = items[1].id

\* C3: a Concrete item written with unit 'M3' and a zero or absent dimension
\* receives the missing-dimension finding that the same item with unit 'm3'
\* receives.
C3_UpperCaseUnitSameFinding ==
  (pc = "validated" /\ Len(items) = 1 /\ items[1].category = "Concrete"
     /\ items[1].unit = Str(<<"M", "3">>) /\ SomeDimensionMissing(items[1]))
  => LET lower == runStructuralRules(<<[items[1] EXCEPT !.unit = m3]>>)
     IN  {results[k] : k \in MissingsOf(items[1].id)}
           = {lower[k] : k \in {j \in DOMAIN lower : IsMissingFinding(lower[j])}}

\* C4: findings keep the order of the items: with distinct ids, the findings of
\* an earlier item all precede those of a later one, an item on which no rule
\* fires has no finding, and within an item the missing-dimension finding
\* precedes the mismatch finding.
C4_FindingOrder ==
  (pc = "validated" /\ DistinctIds) =>
    /\ \A i, j \in DOMAIN items :
         i < j => \A k \in FindingsOf(items[i].id), l \in FindingsOf(items[j].id) : k < l
    /\ \A i \in DOMAIN items :
         (~(ConcreteM3(items[i]) /\ SomeDimensionMissing(items[i]))
            /\ ~Exceeds(calculateQuantity(items[i]), items[i].totalQuantity))
         => FindingsOf(items[i].id) = {}
    /\ \A id \in Ids :
         \A k \in MissingsOf(id), l \in MismatchesOf(id) : k < l

\* items a and c fail both rules, b passes: the findings are a, a, c, c
C4_Witness ==
  /\ pc = "validated"
  /\ Len(items) = 3
  /\ <<items[1].id, items[2].id, items[3].id>> = <<"a", "b", "c">>
  /\ Len(results) = 4
  /\ <<results[1].itemId, results[2].itemId, results[3].itemId, results[4].itemId>>
       = <<"a", "a", "c", "c">>
  /\ IsMissingFinding(results[1]) /\ IsMismatchFinding(results[2])
  /\ IsMissingFinding(results[3]) /\ IsMismatchFinding(results[4])

\* a field of the item after defaulting: dflt when it is zero, absent or NaN
Given(d, dflt) == IF Missing(d) \/ d = NaN THEN dflt ELSE d

\* the product of two numbers
Times(a, b) == Rat(a.n * b.n, a.d * b.d)

\* q is exact rounded to 3 decimals: a multiple of 0.001 within 0.0005 of exact
Rounded3(q, exact) ==
  /\ q.t = "num"
  /\ 1000 % q.d = 0
  /\ 2000 * Abs(q.n * exact.d - exact.n * q.d) <= q.d * exact.d

NonNegative(d) == d = Undefined \/ (d.t = "num" /\ d.n >= 0)

\* multiplier * count of the call, after defaulting
Repeat == Times(Given(arg.multiplier, One), Given(arg.count, One))

AreaOfArg == Times(Given(arg.x, Zero), Given(arg.y, Zero))

VolumeOfArg == Times(AreaOfArg, Given(arg.z, Zero))

\* C5: for unit 'm3' and non-negative x, y, z the result is
\* x*y*z*multiplier*count rounded to 3 decimals, whatever unitWeight is.
C5_CubicMetres ==
  (pc = "calculated" /\ arg.unit = m3
     /\ NonNegative(arg.x) /\ NonNegative(arg.y) /\ NonNegative(arg.z))
  => /\ Rounded3(quantity, Times(VolumeOfArg, Repeat))
     /\ \A w \in UnitWeights :
          calculateQuantity([arg EXCEPT !.unitWeight = w]) = quantity

\* 0.0625 * 0.0625 * 2 * 2 = 0.015625 is returned as 0.016
C5_Witness ==
  /\ pc = "calculated"
  /\ arg.unit = m3
  /\ arg.x = Rat(1, 16) /\ arg.y = Rat(1, 16) /\ arg.z = Int2Num(2)
  /\ arg.multiplier = Int2Num(2) /\ arg.count = Undefined
  /\ arg.unitWeight = Int2Num(500)
  /\ quantity = Rat(16, 1000)

\* C6: for unit 'm2' the result is x*y*multiplier*count rounded to 3 decimals,
\* whatever z and unitWeight are.
C6_SquareMetres ==
  (pc = "calculated" /\ arg.unit = m2)
  => /\ Rounded3(quantity, Times(AreaOfArg, Repeat))
     /\ \A d \in Dimensions, w \in UnitWeights :
          calculateQuantity([arg EXCEPT !.z = d, !.unitWeight = w]) = quantity

\* 0.0625 * 2 * 2 (count) = 0.25 with z = 2 and unitWeight = 1.5
C6_Witness ==
  /\ pc = "calculated"
  /\ arg.unit = m2
  /\ arg.x = Rat(1, 16) /\ arg.y = Int2Num(2) /\ arg.z = Int2Num(2)
  /\ arg.multiplier = One /\ arg.count = Int2Num(2)
  /\ arg.unitWeight = Rat(3, 2)
  /\ quantity = Rat(1, 4)

\* C7: for unit 'kg' the result is x*y*unitWeight*multiplier*count when z is 0
\* or absent and x*y*z*unitWeight*multiplier*count when z > 0, rounded to 3
\* decimals.
C7_KilogramBasis ==
  (pc = "calculated" /\ arg.unit = kg)
  => LET unitWeight == Given(arg.unitWeight, Zero)
     IN  /\ Missing(arg.z)
              => Rounded3(quantity, Times(Times(AreaOfArg, unitWeight), Repeat))
         /\ (arg.z.t = "num" /\ arg.z.n > 0)
              => Rounded3(quantity, Times(Times(VolumeOfArg, unitWeight), Repeat))

\* x = y = 2, z absent, unitWeight 1.5: 6 kg on the area basis
C7_Witness ==
  /\ pc = "calculated"
  /\ arg.unit = kg
  /\ arg.x = Int2Num(2) /\ arg.y = Int2Num(2) /\ arg.z = Undefined
  /\ arg.unitWeight = Rat(3, 2)
  /\ arg.multiplier = Undefined /\ arg.count = One
  /\ quantity = Int2Num(6)

\* the result for the item of the call with its unit replaced by 'kg'
KgOfArg == calculateQuantity([arg EXCEPT !.unit = kg])

\* C8 as stated: the 'ton' result is the 'kg' result of the same item divided
\* by 1000, for every item.
C8_TonIsKgOver1000 ==
  (pc = "calculated" /\ arg.unit = ton)
  => quantity = Rat(KgOfArg.n, 1000 * KgOfArg.d)

\* C8 amended: when the 'kg' result is a whole number the 'ton' result is that
\* number divided by 1000; in every case the 'ton' result is the unrounded 'kg'
\* value divided by 1000 and then rounded to 3 decimals, so that it is within
\* 0.0005005 of the 'kg' result divided by 1000.
C8_TonRoundedAfterConversion ==
  (pc = "calculated" /\ arg.unit = ton)
  => LET unitWeight == Given(arg.unitWeight, Zero)
         base == IF arg.z.t = "num" /\ arg.z.n > 0 THEN VolumeOfArg ELSE AreaOfArg
         kilograms == Times(Times(base, unitWeight), Repeat)
     IN  /\ KgOfArg.d = 1 => quantity = Rat(KgOfArg.n, 1000)
         /\ Rounded3(quantity, Rat(kilograms.n, 1000 * kilograms.d))
         /\ 2000 * Abs(quantity.n * 1000 * KgOfArg.d - KgOfArg.n * quantity.d)
              <= 1001 * quantity.d * KgOfArg.d

\* the spec's example: x = y = z = 2, unitWeight 500 gives 4 t for 4000 kg
C8_Witness ==
  /\ pc = "calculated"
  /\ arg.unit = ton
  /\ arg.x = Int2Num(2) /\ arg.y = Int2Num(2) /\ arg.z = Int2Num(2)
  /\ arg.unitWeight = Int2Num(500)
  /\ arg.multiplier = Undefined /\ arg.count = Undefined
  /\ KgOfArg = Int2Num(4000)
  /\ quantity = Int2Num(4)

\* the first of x, y, z that is neither zero, absent nor NaN, 1 when there
\* is none
FirstGiven ==
  IF Given(arg.x, Zero) # Zero THEN arg.x
  ELSE IF Given(arg.y, Zero) # Zero THEN arg.y
  ELSE IF Given(arg.z, Zero) # Zero THEN arg.z
  ELSE One

\* C9: for a unit other than m3, m2, kg, ton ('adet', 'm', '', absent) the result
\* is the first non-zero of x, y, z, or 1 when all are zero, times
\* multiplier*count (rounded to 3 decimals); with x = y = z = 0 and default
\* multiplier and count it is 1.
C9_LinearUnits ==
  (pc = "calculated" /\ arg.unit \in OtherUnits)
  => /\ Rounded3(quantity, Times(FirstGiven, Repeat))
     /\ (Missing(arg.x) /\ Missing(arg.y) /\ Missing(arg.z)
           /\ Missing(arg.multiplier) /\ Missing(arg.count))
        => quantity = One

\* 'adet' with x = 0, y absent, z = 0.0625 and count 2: 0.125
C9_Witness ==
  /\ pc = "calculated"
  /\ arg.unit = Str(<<"a", "d", "e", "t">>)
  /\ arg.x = Zero /\ arg.y = Undefined /\ arg.z = Rat(1, 16)
  /\ arg.multiplier = Undefined /\ arg.count = Int2Num(2)
  /\ quantity = Rat(1, 8)

\* C10: the unit is compared case-insensitively: writing the unit of an item
\* in another mix of upper and lower case leaves the result unchanged.
C10_UnitCaseInsensitive ==
  (pc = "calculated" /\ arg.unit.t = "str")
  => \A v \in Spellings(arg.unit.s) :
       calculateQuantity([arg EXCEPT !.unit = Str(v)]) = quantity

\* 'TON' with x = y = 2, unitWeight 500 gives the 2 t that 'ton' gives
C10_Witness ==
  /\ pc = "calculated"
  /\ arg.unit = Str(<<"T", "O", "N">>)
  /\ arg.x = Int2Num(2) /\ arg.y = Int2Num(2) /\ arg.z = Zero
  /\ arg.unitWeight = Int2Num(500)
  /\ arg.multiplier = One /\ arg.count = One
  /\ quantity = Int2Num(2)
  /\ calculateQuantity([arg EXCEPT !.unit = ton]) = Int2Num(2)

----------------------------------------------------------------------------
(* C11: the missing-dimension check applies only to Concrete items in m3.   *)
(* An item of category Formwork, Reinforcement or Finishing, and a Concrete *)
(* item whose unit is m2, kg, ton or a linear unit, has no TS 500 finding,  *)
(* whatever its dimensions, all three zero included.                        *)

OutsideMissingCheck(it) ==
  \/ it.category \in {"Formwork", "Reinforcement", "Finishing"}
  \/ /\ it.category = "Concrete"
     /\ it.unit \in {m2, kg, ton, Str(<<"a", "d", "e", "t">>)}

C11_OnlyConcreteM3 ==
  pc = "validated" =>
    \A i \in DOMAIN items :
      OutsideMissingCheck(items[i]) => MissingsOf(items[i].id) = {}

\* a Concrete item in ton with x, y and z all zero, and no TS 500 finding
C11_Witness ==
  /\ pc = "validated"
  /\ Len(items) = 1
  /\ items[1].category = "Concrete"
  /\ items[1].unit = ton
  /\ items[1].x = Zero /\ items[1].y = Zero /\ items[1].z = Zero
  /\ MissingsOf(items[1].id) = {}

----------------------------------------------------------------------------
(* C12: both functions are deterministic and stateless.  In a session, a    *)
(* call whose input equals the input of a remembered earlier call returns   *)
(* the output of that earlier call, whatever was called in between.         *)

----------------------------------------------------------------------------
(* C13: calculateQuantity never fails.  Whatever fields of the item are     *)
(* present, absent, zero or NaN, the call does not raise and returns a      *)
(* number, the one it returns for the item with 0 put for x, y, z and       *)
(* unitWeight, 1 for multiplier and count and '' for unit where they are    *)
(* absent, zero or NaN.  runStructuralRules does not raise either: it       *)
(* returns a list of findings of its two rules.                             *)

Defaulted(item) ==
  [x |-> Given(item.x, Zero),
   y |-> Given(item.y, Zero),
   z |-> Given(item.z, Zero),
   multiplier |-> Given(item.multiplier, One),
   count |-> Given(item.count, One),
   unitWeight |-> Given(item.unitWeight, Zero),
   unit |-> IF item.unit.t = "str" THEN item.unit ELSE Str(<<>>)]

C13_NeverRaises ==
  /\ pc # "raised"
  /\ pc = "calculated" =>
       /\ quantity.t = "num"
       /\ quantity = calculateQuantity(Defaulted(arg))
  /\ pc = "validated" =>
       \A k \in DOMAIN results :
         /\ IsMismatchFinding(results[k]) \/ IsMissingFinding(results[k])
         /\ \E i \in DOMAIN items : results[k].itemId = items[i].id

\* x NaN, y and the unit absent, multiplier and count NaN: the result is
\* the 1 of the linear branch
C13_Witness ==
  /\ pc = "calculated"
  /\ arg.x = NaN /\ arg.y = Undefined /\ arg.z = NaN
  /\ arg.multiplier = NaN /\ arg.count = NaN /\ arg.unitWeight = NaN
  /\ arg.unit = Undefined
  /\ quantity = One

----------------------------------------------------------------------------
(* C14: a stored zero and an absent field behave identically.  For each of  *)
(* x, y, z, multiplier, count and unitWeight that is zero or absent in the  *)
(* item, the result is the same with the field zero and with the field      *)
(* absent; for multiplier and count it is the result with the factor 1.     *)

NumericFields == {"x", "y", "z", "multiplier", "count", "unitWeight"}

\* zero for absent and absent for zero
Exchanged(d) == IF d = Zero THEN Undefined ELSE Zero

C14_ZeroIsAbsent ==
  pc = "calculated" =>
    \A f \in NumericFields :
      Missing(arg[f]) =>
        /\ calculateQuantity([arg EXCEPT ![f] = Exchanged(arg[f])]) = quantity
        /\ f \in {"multiplier", "count"} =>
             calculateQuantity([arg EXCEPT ![f] = One]) = quantity

\* 2 x 2 x 2 m3 with multiplier 0 and count 0 is 8, not 0
C14_Witness ==
  /\ pc = "calculated"
  /\ arg.unit = m3
  /\ arg.x = Int2Num(2) /\ arg.y = Int2Num(2) /\ arg.z = Int2Num(2)
  /\ arg.multiplier = Zero /\ arg.count = Zero
  /\ quantity = Int2Num(8)

----------------------------------------------------------------------------
(* C15: when x, y, z and unitWeight are non-negative (or absent) and        *)
(* multiplier and count are positive (or absent), the result is a           *)
(* non-negative number, for every unit.                                     *)

PositiveOrAbsent(d) == d = Undefined \/ (d.t = "num" /\ d.n > 0)

C15_NonNegative ==
  (pc = "calculated"
     /\ NonNegative(arg.x) /\ NonNegative(arg.y) /\ NonNegative(arg.z)
     /\ NonNegative(arg.unitWeight)
     /\ PositiveOrAbsent(arg.multiplier) /\ PositiveOrAbsent(arg.count))
  => (quantity.t = "num" /\ quantity.n >= 0)

\* no dimension at all under a linear unit: the result is 1 * 2
C15_Witness ==
  /\ pc = "calculated"
  /\ arg.unit = Str(<<"a", "d", "e", "t">>)
  /\ arg.x = Zero /\ arg.y = Undefined /\ arg.z = Zero
  /\ arg.unitWeight = Rat(3, 2)
  /\ arg.multiplier = Int2Num(2) /\ arg.count = One
  /\ quantity = Int2Num(2)

----------------------------------------------------------------------------
(* C16: the result is rounded to 3 decimals.  It is a multiple of 0.001 and *)
(* differs by at most 0.0005 from the unrounded value, the result of the    *)
(* branch of the unit times multiplier times count.                         *)

\* the unit of the call is u in some mix of upper and lower case
UnitIs(u) == arg.unit.t = "str" /\ arg.unit.s \in Spellings(u.s)

\* the unrounded result of the branch the unit selects
BranchOfArg ==
  LET basis == IF Given(arg.z, Zero).n > 0 THEN VolumeOfArg ELSE AreaOfArg
      weight == Times(basis, Given(arg.unitWeight, Zero))
  IN  IF UnitIs(m3) THEN VolumeOfArg
      ELSE IF UnitIs(m2) THEN AreaOfArg
      ELSE IF UnitIs(kg) THEN weight
      ELSE IF UnitIs(ton) THEN Rat(weight.n, 1000 * weight.d)
      ELSE FirstGiven

C16_RoundedTo3Decimals ==
  pc = "calculated" => Rounded3(quantity, Times(BranchOfArg, Repeat))

\* a tie: 0.0625 of a linear unit is returned as 0.063, 0.0005 away
C16_Witness ==
  /\ pc = "calculated"
  /\ arg.unit = Str(<<"a", "d", "e", "t">>)
  /\ arg.x = Rat(1, 16)
  /\ arg.multiplier = Undefined /\ arg.count = One
  /\ Times(BranchOfArg, Repeat) = Rat(1, 16)
  /\ quantity = Rat(63, 1000)

----------------------------------------------------------------------------
(* C17: runStructuralRules returns the empty list when no rule fires: for   *)
(* the empty list, and for a list in which every item has its manual total  *)
(* within 0.01 of the computed quantity and is not a Concrete item in m3    *)
(* with a zero or absent dimension.                                         *)

NoRuleFires(it) ==
  /\ ~Exceeds(calculateQuantity(it), it.totalQuantity)
  /\ ~(ConcreteM3(it) /\ SomeDimensionMissing(it))

C17_NoRuleNoFinding ==
  pc = "validated" =>
    /\ items = << >> => results = << >>
    /\ (\A i \in DOMAIN items : NoRuleFires(items[i])) => results = << >>

\* Concrete, m3, 4 x 3 x 0.3 with the manual total 3.6: computed 3.6, no
\* finding
C17_Witness ==
  /\ pc = "validated"
  /\ Len(items) = 1
  /\ items[1].category = "Concrete" /\ items[1].unit = m3
  /\ items[1].x = Int2Num(4) /\ items[1].y = Int2Num(3)
  /\ items[1].z = Rat(3, 10)
  /\ items[1].multiplier = One /\ items[1].count = One
  /\ items[1].totalQuantity = Rat(36, 10)
  /\ calculateQuantity(items[1]) = Rat(36, 10)
  /\ results = << >>

----------------------------------------------------------------------------
(* C18: neither function mutates its input.  Across every call of a         *)
(* session the item handed to calculateQuantity and the list handed to      *)
(* runStructuralRules are after the call what they were before it: the same *)
(* length, the same order, the same field values.                           *)

CallEnds == pc' \in {"calculated", "validated", "raised"}

----------------------------------------------------------------------------
(* C19: the computed quantity depends only on x, y, z, multiplier, count,   *)
(* unitWeight and unit: an item and its restriction to these seven fields   *)
(* get the same result, and so does the form row with other fields added.   *)
(* The findings for an item do not depend on its stored calculatedQuantity, *)
(* area and volume: they are the same whatever these three fields hold.     *)

\* a value for the stored fields of it other than what it holds: the manual
\* total, which would hide a mismatch, or nothing when it holds that already
Other(it) ==
  IF it.calculatedQuantity = it.totalQuantity THEN Undefined
  ELSE it.totalQuantity

\* the item with its three stored derived fields set to c
Restored(it, c) == [it EXCEPT !.calculatedQuantity = c, !.area = c, !.volume = c]

C19_OnlySevenFields ==
  /\ pc = "calculated" =>
       calculateQuantity(
         [id |-> "a", pozNumber |-> "15.150.1001", category |-> "Finishing",
          unit |-> arg.unit, x |-> arg.x, y |-> arg.y, z |-> arg.z,
          multiplier |-> arg.multiplier, count |-> arg.count,
          unitWeight |-> arg.unitWeight, totalQuantity |-> Int2Num(8),
          area |-> Int2Num(8), volume |-> Int2Num(8),
          calculatedQuantity |-> Int2Num(8)]) = quantity
  /\ pc = "validated" =>
       runStructuralRules(
         [i \in DOMAIN items |-> Restored(items[i], Other(items[i]))])
         = results

\* the slab 4 x 3 x 0.3 saved with calculatedQuantity 3.62 and the manual
\* total 3.62: the finding reports the recomputed 3.6
C19_Witness ==
  /\ pc = "validated"
  /\ Len(items) = 1
  /\ items[1].calculatedQuantity = Rat(362, 100)
  /\ items[1].totalQuantity = Rat(362, 100)
  /\ Len(results) = 1
  /\ IsMismatchFinding(results[1])
  /\ results[1].message.system = Rat(36, 10)

----------------------------------------------------------------------------
(* C20: findings are not deduplicated or merged across items.  The output   *)
(* for a list is the concatenation, in the order of the items, of what      *)
(* runStructuralRules returns for each item alone; the same failing item    *)
(* twice in the list gives its findings twice.                              *)

RECURSIVE EachAlone(_, _)
EachAlone(list, i) ==
  IF i > Len(list) THEN << >>
  ELSE runStructuralRules(<<list[i]>>) \o EachAlone(list, i + 1)

C20_Concatenation ==
  pc = "validated" => results = EachAlone(items, 1)

\* the same item twice, missing a dimension and off its total: four findings,
\* the third and fourth equal to the first and second
C20_Witness ==
  /\ pc = "validated"
  /\ Len(items) = 2
  /\ items[1] = items[2]
  /\ Len(results) = 4
  /\ IsMissingFinding(results[1]) /\ IsMismatchFinding(results[2])
  /\ results[3] = results[1] /\ results[4] = results[2]

----------------------------------------------------------------------------
(* C21: the two checks are independent.  A Concrete item in m3 with a zero  *)
(* or absent dimension has the computed quantity 0; it gets the             *)
(* missing-dimension finding, followed by a mismatch finding exactly when   *)
(* its manual total is more than 0.01 away from 0.                          *)

C21_BothRulesFire ==
  pc = "validated" =>
    \A i \in DOMAIN items :
      (ConcreteM3(items[i]) /\ SomeDimensionMissing(items[i])) =>
        /\ calculateQuantity(items[i]) = Zero
        /\ Len(items) = 1 =>
             /\ Len(results) =
                  IF Exceeds(Zero, items[1].totalQuantity) THEN 2 ELSE 1
             /\ IsMissingFinding(results[1])
             /\ Len(results) = 2 => IsMismatchFinding(results[2])
        /\ DistinctIds =>
             /\ Cardinality(MissingsOf(items[i].id)) = 1
             /\ Cardinality(MismatchesOf(items[i].id)) =
                  IF Exceeds(Zero, items[i].totalQuantity) THEN 1 ELSE 0
             /\ \A k \in MissingsOf(items[i].id) :
                  \A l \in MismatchesOf(items[i].id) : l = k + 1

\* x = 0 with the manual total 1: both findings, in the order of the checks
C21_Witness ==
  /\ pc = "validated"
  /\ Len(items) = 1
  /\ ConcreteM3(items[1])
  /\ items[1].x = Zero /\ items[1].y = Int2Num(2) /\ items[1].z = Int2Num(2)
  /\ items[1].totalQuantity = One
  /\ Len(results) = 2
  /\ IsMissingFinding(results[1]) /\ IsMismatchFinding(results[2])

----------------------------------------------------------------------------
(* C22: every finding has severity CRITICAL and the id of an item of the    *)
(* input list; an item gets at most one finding of each rule, so at most    *)
(* two, and the output is at most twice as long as the input.               *)

C22_FindingsBounded ==
  pc = "validated" =>
    /\ \A k \in DOMAIN results :
         /\ results[k].severity = "CRITICAL"
         /\ results[k].itemId \in Ids
    /\ \A id \in Ids :
         /\ Cardinality(MissingsOf(id)) <= Cardinality(ItemsOf(id))
         /\ Cardinality(MismatchesOf(id)) <= Cardinality(ItemsOf(id))
         /\ Cardinality(FindingsOf(id)) <= 2 * Cardinality(ItemsOf(id))
    /\ Len(results) <= 2 * Len(items)

\* three items with two findings each: six findings
C22_Witness ==
  /\ pc = "validated"
  /\ Len(items) = 3
  /\ DistinctIds
  /\ Len(results) = 6
  /\ \A id \in Ids : Cardinality(FindingsOf(id)) = 2

----------------------------------------------------------------------------
(* C23: for the units kg and ton the result is 0 whenever unitWeight is     *)
(* zero or absent, whatever x, y, z, multiplier and count are; so the       *)
(* validator reports a mismatch for every such item whose manual total is   *)
(* more than 0.01 away from 0.                                              *)

\* u is kg or ton in some mix of upper and lower case
WeightUnit(u) ==
  u.t = "str" /\ u.s \in Spellings(kg.s) \cup Spellings(ton.s)

C23_NoWeightNoQuantity ==
  /\ (pc = "calculated" /\ WeightUnit(arg.unit) /\ Missing(arg.unitWeight))
       => quantity = Zero
  /\ pc = "validated" =>
       \A i \in DOMAIN items :
         (WeightUnit(items[i].unit) /\ Missing(items[i].unitWeight)
            /\ Exceeds(Zero, items[i].totalQuantity))
         => \E k \in MismatchesOf(items[i].id) :
              /\ results[k].message.system = Zero
              /\ results[k].message.manual = items[i].totalQuantity

\* 2 x 2 x 2 of Reinforcement in kg without a unit weight and the manual
\* total 2: reported with the computed 0
C23_Witness ==
  /\ pc = "validated"
  /\ Len(items) = 1
  /\ items[1].category = "Reinforcement"
  /\ items[1].unit = kg
  /\ items[1].x = Int2Num(2) /\ items[1].y = Int2Num(2)
  /\ items[1].z = Int2Num(2)
  /\ items[1].unitWeight = Undefined
  /\ items[1].totalQuantity = Int2Num(2)
  /\ Len(results) = 1
  /\ IsMismatchFinding(results[1])
  /\ results[1].message.system = Zero

----------------------------------------------------------------------------
(* C24: after any sequence of addItem, confirmed Excel import and row       *)
(* deletion, every item of every project holds the calculated quantity      *)
(* that calculateQuantity gives for it, so the row status of the input      *)
(* table is 'mismatch' exactly for the items for which runStructuralRules   *)
(* emits a mismatch finding.                                                *)

\* runStructuralRules(list) holds a mismatch finding for the item id
MismatchReported(list, id) ==
  LET found == runStructuralRules(list)
  IN  \E k \in DOMAIN found : found[k].itemId = id /\ IsMismatchFinding(found[k])

C24_RowStatusIsMismatchFinding ==
  \A i \in DOMAIN projects :
    \A j \in DOMAIN projects[i].items :
      LET item == projects[i].items[j]
      IN  /\ item.calculatedQuantity = calculateQuantity(item)
          /\ hasError(item) <=> MismatchReported(projects[i].items, item.id)

\* an imported row shown as a mismatch is what is left of the current
\* project after a row was added above it and deleted again
C24_Witness ==
  /\ handler.name = "deleteRow"
  /\ handler.id = toString(3)
  /\ activeProject # Undefined
  /\ Len(activeProject.items) = 1
  /\ activeProject.items[1].id = excelId(2, 0)
  /\ activeProject.items[1].totalQuantity = Rat(5, 2)
  /\ hasError(activeProject.items[1])
  /\ MismatchReported(activeProject.items, excelId(2, 0))

----------------------------------------------------------------------------
(* C25: after any sequence of createProject, project selection,             *)
(* deleteProject and clearAllData, with distinct project ids,               *)
(* currentProjectId is null or the id of a project of the projects list;    *)
(* deleting the current project resets it to null and deleting another      *)
(* project leaves it unchanged.                                             *)

DistinctProjectIds ==
  \A i, j \in DOMAIN projects : projects[i].id = projects[j].id => i = j

C25_CurrentProjectPresent ==
  /\ DistinctProjectIds =>
       \/ currentProjectId = Null
       \/ \E i \in DOMAIN projects : projects[i].id = currentProjectId
  /\ handler.name = "deleteProject" =>
       /\ \A i \in DOMAIN projects : projects[i].id # handler.id
       /\ currentProjectId =
            IF handler.current = handler.id THEN Null ELSE handler.current

\* the second of two projects is current and the first has been deleted
C25_Witness ==
  /\ handler.name = "deleteProject"
  /\ handler.id = toString(1)
  /\ handler.current = toString(2)
  /\ currentProjectId = toString(2)
  /\ Len(projects) = 1
  /\ projects[1].id = toString(2)

----------------------------------------------------------------------------
(* C27: operations invoked without an active project leave the state        *)
(* unchanged: runFullAudit with no active project changes neither           *)
(* isAnalyzing, screen, aiAnalysis nor auditHistory, and updateItems with   *)
(* currentProjectId = null changes no project; when a project is current,   *)
(* updateItems replaces the items of that project only and leaves every     *)
(* other project unchanged.                                                 *)

\* the step is a call of updateItems, by any of its four callers
UpdateItemsStep ==
  /\ handler' # handler
  /\ handler'.name \in {"setItems", "addItem", "confirmImport", "deleteRow"}

\* the step is a call of runFullAudit
RunFullAuditStep == handler' # handler /\ handler'.name = "runFullAudit"

\* the project at position i is the same but for its items, which are the
\* list its caller passed: the old rows below a new one, below the
\* preview's rows, or without the deleted row
OnlyItemsReplaced(i) ==
  /\ [projects'[i] EXCEPT !.items = projects[i].items] = projects[i]
  /\ handler'.name = "addItem" =>
       /\ projects'[i].items # << >>
       /\ Tail(projects'[i].items) = projects[i].items
  /\ handler'.name = "confirmImport" =>
       projects'[i].items = parsedItemsPreview \o projects[i].items
  /\ handler'.name = "deleteRow" =>
       projects'[i].items =
         SelectSeq(projects[i].items, LAMBDA it : it.id # handler'.id)

C27_NoActiveProjectNoChange ==
  [][/\ (RunFullAuditStep /\ activeProject = Undefined) =>
          UNCHANGED <<isAnalyzing, screen, aiAnalysis, auditHistory>>
     /\ (UpdateItemsStep /\ currentProjectId = Null) => projects' = projects
     /\ (UpdateItemsStep /\ currentProjectId # Null) =>
          /\ Len(projects') = Len(projects)
          /\ \A i \in DOMAIN projects :
               IF projects[i].id = currentProjectId
               THEN OnlyItemsReplaced(i)
               ELSE projects'[i] = projects[i]]_vars

\* runFullAudit was called on the input screen while a project exists and
\* none is current: nothing is being analysed and the screen is the same
C27_Witness ==
  /\ handler.name = "runFullAudit"
  /\ handler.current = Null
  /\ activeProject = Undefined
  /\ projects # << >>
  /\ screen = "INPUT"
  /\ ~isAnalyzing
  /\ audits = {}

----------------------------------------------------------------------------
(* C26: every started runFullAudit eventually resets isAnalyzing to false,  *)
(* whether the AI analysis succeeds, returns its failure fallback, or an    *)
(* exception is caught; while the analysis call is pending isAnalyzing is   *)
(* true and the screen was set to VALIDATION.                               *)

\* an analysis is awaited in slot k
Pending(k) == \E a \in audits : a.slot = k

\* the audit of slot k has run its finally
Finished(k) ==
  /\ handler.name = "runFullAudit.resumed"
  /\ handler.slot = k
  /\ ~Pending(k)
  /\ ~isAnalyzing

\* every started audit resets isAnalyzing in the end
EveryAuditResets == \A k \in 1..MaxPending : Pending(k) ~> Finished(k)

\* an audit starts by setting isAnalyzing and the VALIDATION screen
StartsOnValidation ==
  [][(audits' # audits /\ audits \subseteq audits') =>
       (isAnalyzing' /\ screen' = "VALIDATION")]_vars

\* isAnalyzing is true while an analysis is awaited
PendingIsAnalyzing == [](audits # {} => isAnalyzing)

C26_AuditResetsIsAnalyzing ==
  EveryAuditResets /\ StartsOnValidation /\ PendingIsAnalyzing

----------------------------------------------------------------------------
(* C28: the AI collaborators never reject: when the model call fails or     *)
(* returns an empty response, analyzeExcelStructure resolves to the fixed   *)
(* fallback mapping with startRow 1 and getAIExpertAnalysis resolves to     *)
(* {riskScore 0, summary 'Analysis failed', no findings}; so each           *)
(* runFullAudit that completes normally prepends exactly one record to      *)
(* auditHistory, newest first, and ends on the AI_PANEL screen.             *)

\* the model call failed or answered nothing
FailedOrEmpty(outcome) == outcome = Rejects \/ outcome \in EmptyResponses

\* the upload's analysis has just settled, the audit's analysis has
Uploaded == handler.name = "onload"

Resumed == handler.name = "runFullAudit.resumed"

\* neither collaborator rejects, and each falls back as stated
CollaboratorsFallBack ==
  /\ Uploaded =>
       /\ analyzeExcelStructure(handler.outcome).state = "fulfilled"
       /\ FailedOrEmpty(handler.outcome) =>
            /\ importPreview # Null
            /\ importPreview.mapping = FallbackStructure.mapping
            /\ importPreview.startRow = 1
  /\ Resumed =>
       /\ getAIExpertAnalysis(handler.outcome).state = "fulfilled"
       /\ FailedOrEmpty(handler.outcome) => aiAnalysis = FailedAnalysis

\* the step in which an audit completes without an exception
CompletesNormally ==
  /\ handler' # handler
  /\ handler'.name = "runFullAudit.resumed"
  /\ getAIExpertAnalysis(handler'.outcome).state = "fulfilled"

\* such a step puts one record of its analysis in front and shows the panel
OneRecordPrepended ==
  [][CompletesNormally =>
       /\ auditHistory' # << >>
       /\ Tail(auditHistory') = auditHistory
       /\ auditHistory'[1].analysis = aiAnalysis'
       /\ \A k \in DOMAIN auditHistory : auditHistory[k].date < auditHistory'[1].date
       /\ screen' = "AI_PANEL"]_vars

C28_CollaboratorsNeverReject == []CollaboratorsFallBack /\ OneRecordPrepended

=============================================================================
